---- MODULE Spec2Model ----
(***************************************************************************)
(* Model of gittuf's policy engine as driven by the Repository mutators of *)
(* internal/repository (targets.go) against the policy staging reference.  *)
(* Each action is one whole call of a Repository method: load, check,      *)
(* transform, envelope, sign, commit.  The policy, tuf and dsse packages   *)
(* the methods call are modelled by the operators of the first sections.   *)
(***************************************************************************)
EXTENDS Integers, Sequences, FiniteSets, TLC

\* ------------------------------------------------------------------ bounds
MaxCommits == 5
MaxThreshold == 1
MaxPolicyCommits == 3

\* ------------------------------------------------------------ input domains
RootRoleName == "root"
TargetsRoleName == "targets"

SignerKeys == {"A", "B"}
RuleFileNames == {TargetsRoleName, "delegate"}
RoleNames == {RootRoleName} \cup RuleFileNames
RuleNames == {RootRoleName, "protect-main"}
AuthorizedKeySets == {{}, {"C"}}
RulePatternSets == {{"git:refs/heads/main"}}
Thresholds == 0..MaxThreshold
RootSignerKeys == {"A"}
TopLevelTargetsKeys == {"B"}
RemovableKeyIDs == {"B", "some key ID"}

\* A signer is its key plus the two ways an sslibdsse.SignerVerifier can
\* fail: KeyID() returning an error and Sign() returning an error (Sign
\* resolves the key id first, so a failing KeyID() fails Sign as well).
OkSigners == { [key |-> k, keyIDFails |-> FALSE, signFails |-> FALSE] : k \in SignerKeys }

FailingSigners ==
    { [key |-> "B", keyIDFails |-> TRUE, signFails |-> TRUE],
      [key |-> "B", keyIDFails |-> FALSE, signFails |-> TRUE] }

Signers == OkSigners \cup FailingSigners

\* The conditions of one call: who signs, and whether serializing the
\* metadata into an envelope payload fails.
CallConditions ==
    { <<s, FALSE>> : s \in Signers } \cup { <<s, TRUE>> : s \in {[key |-> "B", keyIDFails |-> FALSE, signFails |-> FALSE]} }

\* ------------------------------------------------------------- data model
NilEnvelope == [payload |-> [type |-> "nil"], signatures |-> <<>>]

EmptyState ==
    [RootEnvelope |-> NilEnvelope,
     TargetsEnvelope |-> NilEnvelope,
     DelegationEnvelopes |-> <<>>]

SeqToSet(s) == { s[i] : i \in 1..Len(s) }

RECURSIVE RemoveNamed(_, _)
RemoveNamed(delegations, ruleName) ==
    IF delegations = <<>> THEN <<>>
    ELSE IF Head(delegations).name = ruleName
         THEN RemoveNamed(Tail(delegations), ruleName)
         ELSE <<Head(delegations)>> \o RemoveNamed(Tail(delegations), ruleName)

\* ------------------------------------------------- policy package (metadata)
InitializeRootMetadata(key) ==
    [type |-> "root", rootKeys |-> {key}, targetsKeys |-> {key}]

InitializeTargetsMetadata ==
    [type |-> "targets", keys |-> {}, delegations |-> <<>>]

HasDelegation(metadata, ruleName) ==
    \E i \in 1..Len(metadata.delegations) : metadata.delegations[i].name = ruleName

\* Each metadata mutator yields [err, metadata]; err = "nil" on success.
PolicyAddDelegation(metadata, ruleName, authorizedKeys, rulePatterns, threshold) ==
    IF ruleName = RootRoleName
    THEN [err |-> "ErrInvalidPolicyName", metadata |-> metadata]
    ELSE IF HasDelegation(metadata, ruleName)
    THEN [err |-> "ErrDuplicatedRuleName", metadata |-> metadata]
    ELSE IF threshold < 1 \/ threshold > Cardinality(authorizedKeys)
    THEN [err |-> "ErrInvalidThreshold", metadata |-> metadata]
    ELSE [err |-> "nil",
          metadata |-> [metadata EXCEPT !.delegations =
              Append(@, [name |-> ruleName, keys |-> authorizedKeys,
                         patterns |-> rulePatterns, threshold |-> threshold])]]

\* Variant: the rule is deleted and the new one appended at the end.
PolicyUpdateDelegation_DeleteAppend(metadata, ruleName, authorizedKeys, rulePatterns, threshold) ==
    IF ruleName = RootRoleName
    THEN [err |-> "ErrInvalidPolicyName", metadata |-> metadata]
    ELSE IF ~HasDelegation(metadata, ruleName)
    THEN [err |-> "ErrRuleNotFound", metadata |-> metadata]
    ELSE [err |-> "nil",
          metadata |-> [metadata EXCEPT !.delegations =
              Append(RemoveNamed(@, ruleName),
                     [name |-> ruleName, keys |-> authorizedKeys,
                      patterns |-> rulePatterns, threshold |-> threshold])]]

PolicyUpdateDelegation(metadata, ruleName, authorizedKeys, rulePatterns, threshold) ==
    IF ruleName = RootRoleName
    THEN [err |-> "ErrInvalidPolicyName", metadata |-> metadata]
    ELSE IF ~HasDelegation(metadata, ruleName)
    THEN [err |-> "ErrRuleNotFound", metadata |-> metadata]
    ELSE [err |-> "nil",
          metadata |-> [metadata EXCEPT !.delegations =
              [i \in 1..Len(@) |->
                  IF @[i].name = ruleName
                  THEN [name |-> ruleName, keys |-> authorizedKeys,
                        patterns |-> rulePatterns, threshold |-> threshold]
                  ELSE @[i]]]]

PolicyRemoveDelegation(metadata, ruleName) ==
    IF ruleName = RootRoleName
    THEN [err |-> "ErrInvalidPolicyName", metadata |-> metadata]
    ELSE IF ~HasDelegation(metadata, ruleName)
    THEN [err |-> "ErrRuleNotFound", metadata |-> metadata]
    ELSE [err |-> "nil",
          metadata |-> [metadata EXCEPT !.delegations = RemoveNamed(@, ruleName)]]

PolicyAddKeyToTargets(metadata, authorizedKeys) ==
    [err |-> "nil", metadata |-> [metadata EXCEPT !.keys = @ \cup authorizedKeys]]

\* ------------------------------------------------------ dsse package
CreateEnvelope(metadata) == [payload |-> metadata, signatures |-> <<>>]

HasSignatureFrom(env, keyID) ==
    \E i \in 1..Len(env.signatures) : env.signatures[i] = keyID

\* A signature is identified by the key id that made it; one by the same
\* key id is replaced in place, otherwise the new one is appended.
\* Variant: a new signature is appended whether or not the key signed before.
SignEnvelope_AlwaysAppend(env, signer) ==
    [env EXCEPT !.signatures = Append(@, signer.key)]

SignEnvelope(env, signer) ==
    IF HasSignatureFrom(env, signer.key)
    THEN env
    ELSE [env EXCEPT !.signatures = Append(@, signer.key)]

\* ------------------------------------------------- policy package (state)
HasTargetsRole(state, roleName) ==
    IF roleName = TargetsRoleName
    THEN state.TargetsEnvelope # NilEnvelope
    ELSE roleName \in DOMAIN state.DelegationEnvelopes

AllTargetsEnvelopes(state) ==
    (IF state.TargetsEnvelope # NilEnvelope THEN {state.TargetsEnvelope} ELSE {})
    \cup { state.DelegationEnvelopes[r] : r \in DOMAIN state.DelegationEnvelopes }

HasRuleName(state, ruleName) ==
    \E env \in AllTargetsEnvelopes(state) : HasDelegation(env.payload, ruleName)

\* LoadCurrentState fails exactly when the staging ref holds no root document.
LoadFails(staged) == staged.RootEnvelope = NilEnvelope

GetEnvelope(state, roleName) ==
    IF roleName = TargetsRoleName
    THEN state.TargetsEnvelope
    ELSE state.DelegationEnvelopes[roleName]

GetTargetsMetadata(state, roleName) == GetEnvelope(state, roleName).payload

\* state.Commit writes the commit only if the staging ref still points at the
\* tip the state was loaded from; otherwise the store reports a conflict.
CommitLands_Blind(loadedTip, currentTip) == TRUE

CommitLands(loadedTip, currentTip) == loadedTip = currentTip

\* ---------------------------------------------------- Repository methods
\* The outcome of one call: the returned error ("nil" for a nil error), the
\* step that ended the call, whether LoadCurrentState was called, and, when
\* state.Commit is reached, the policy state it writes.
Return(err, step, loaded, state) ==
    [result |-> err, step |-> step, loaded |-> loaded, commit |-> FALSE, state |-> state]

Commit(state) ==
    [result |-> "nil", step |-> "commit", loaded |-> TRUE, commit |-> TRUE, state |-> state]

\* Variant: every role, the top-level one included, goes into the map of
\* delegation envelopes.
SetEnvelope_AlwaysDelegationMap(state, roleName, env) ==
    [state EXCEPT !.DelegationEnvelopes =
        [r \in DOMAIN @ \cup {roleName} |-> IF r = roleName THEN env ELSE @[r]]]

SetEnvelope(state, roleName, env) ==
    IF roleName = TargetsRoleName
    THEN [state EXCEPT !.TargetsEnvelope = env]
    ELSE [state EXCEPT !.DelegationEnvelopes =
              [r \in DOMAIN @ \cup {roleName} |-> IF r = roleName THEN env ELSE @[r]]]

\* CreateEnvelope, SignEnvelope, store the envelope, Commit: the tail shared
\* by the metadata-changing methods.  swallow = TRUE where the source returns
\* nil on an envelope or signing error.
\* Variant: the new payload is put into the role's existing envelope, whose
\* signatures stay attached, instead of a fresh one.
EnvelopeSignCommit_KeepsSignatures(state, signer, marshalFails, roleName, metadata, swallow) ==
    IF marshalFails
    THEN Return(IF swallow THEN "nil" ELSE "ErrCreateEnvelope", "envelope", TRUE, state)
    ELSE IF signer.signFails
    THEN Return(IF swallow THEN "nil" ELSE "ErrSign", "sign", TRUE, state)
    ELSE LET env == IF HasTargetsRole(state, roleName)
                    THEN [GetEnvelope(state, roleName) EXCEPT !.payload = metadata]
                    ELSE CreateEnvelope(metadata)
         IN  Commit(SetEnvelope(state, roleName, SignEnvelope(env, signer)))

\* Variant: the envelope is stored and committed before it is signed.
EnvelopeSignCommit_CommitBeforeSign(state, signer, marshalFails, roleName, metadata, swallow) ==
    IF marshalFails
    THEN Return(IF swallow THEN "nil" ELSE "ErrCreateEnvelope", "envelope", TRUE, state)
    ELSE IF signer.signFails
    THEN [result |-> IF swallow THEN "nil" ELSE "ErrSign", step |-> "sign",
          loaded |-> TRUE, commit |-> TRUE,
          state |-> SetEnvelope(state, roleName, CreateEnvelope(metadata))]
    ELSE Commit(SetEnvelope(state, roleName, SignEnvelope(CreateEnvelope(metadata), signer)))

EnvelopeSignCommit(state, signer, marshalFails, roleName, metadata, swallow) ==
    IF marshalFails
    THEN Return(IF swallow THEN "nil" ELSE "ErrCreateEnvelope", "envelope", TRUE, state)
    ELSE IF signer.signFails
    THEN Return(IF swallow THEN "nil" ELSE "ErrSign", "sign", TRUE, state)
    ELSE Commit(SetEnvelope(state, roleName, SignEnvelope(CreateEnvelope(metadata), signer)))

\* Variant: the error of LoadCurrentState is not checked.
InitializeTargets_IgnoresLoadError(staged, signer, marshalFails, targetsRoleName) ==
    IF targetsRoleName = RootRoleName
    THEN Return("ErrInvalidPolicyName", "reserved", FALSE, staged)
    ELSE IF signer.keyIDFails
    THEN Return("nil", "keyid", FALSE, staged)
    ELSE IF HasTargetsRole(staged, targetsRoleName)
    THEN Return("ErrCannotReinitialize", "precondition", TRUE, staged)
    ELSE EnvelopeSignCommit(staged, signer, marshalFails, targetsRoleName,
                            InitializeTargetsMetadata, TRUE)

\* Variant: the key id is resolved before the reserved name is checked.
InitializeTargets_KeyIDFirst(staged, signer, marshalFails, targetsRoleName) ==
    IF signer.keyIDFails
    THEN Return("nil", "keyid", FALSE, staged)
    ELSE IF targetsRoleName = RootRoleName
    THEN Return("ErrInvalidPolicyName", "reserved", FALSE, staged)
    ELSE IF LoadFails(staged)
    THEN Return("ErrPolicyNotInitialized", "load", TRUE, staged)
    ELSE IF HasTargetsRole(staged, targetsRoleName)
    THEN Return("ErrCannotReinitialize", "precondition", TRUE, staged)
    ELSE EnvelopeSignCommit(staged, signer, marshalFails, targetsRoleName,
                            InitializeTargetsMetadata, TRUE)

InitializeTargets(staged, signer, marshalFails, targetsRoleName) ==
    IF targetsRoleName = RootRoleName
    THEN Return("ErrInvalidPolicyName", "reserved", FALSE, staged)
    ELSE IF signer.keyIDFails
    THEN Return("nil", "keyid", FALSE, staged)
    ELSE IF LoadFails(staged)
    THEN Return("ErrPolicyNotInitialized", "load", TRUE, staged)
    ELSE IF HasTargetsRole(staged, targetsRoleName)
    THEN Return("ErrCannotReinitialize", "precondition", TRUE, staged)
    ELSE EnvelopeSignCommit(staged, signer, marshalFails, targetsRoleName,
                            InitializeTargetsMetadata, TRUE)

\* Variant: the role-existence test has lost its negation.
AddDelegation_RoleCheckInverted(staged, signer, marshalFails, targetsRoleName, ruleName, authorizedKeys, rulePatterns, threshold) ==
    IF ruleName = RootRoleName
    THEN Return("ErrInvalidPolicyName", "reserved", FALSE, staged)
    ELSE IF signer.keyIDFails
    THEN Return("nil", "keyid", FALSE, staged)
    ELSE IF LoadFails(staged)
    THEN Return("ErrPolicyNotInitialized", "load", TRUE, staged)
    ELSE IF HasRuleName(staged, ruleName)
    THEN Return("ErrDuplicatedRuleName", "precondition", TRUE, staged)
    ELSE IF HasTargetsRole(staged, targetsRoleName)
    THEN Return("ErrMetadataNotFound", "precondition", TRUE, staged)
    ELSE Return("ErrMetadataNotFound", "transform", TRUE, staged)

\* Variant: the check left as a TODO is filled in, the signer having to be a
\* top-level targets key of the root.
AddDelegation_RequiresTargetsKey(staged, signer, marshalFails, targetsRoleName, ruleName, authorizedKeys, rulePatterns, threshold) ==
    IF ruleName = RootRoleName
    THEN Return("ErrInvalidPolicyName", "reserved", FALSE, staged)
    ELSE IF signer.keyIDFails
    THEN Return("nil", "keyid", FALSE, staged)
    ELSE IF LoadFails(staged)
    THEN Return("ErrPolicyNotInitialized", "load", TRUE, staged)
    ELSE IF HasRuleName(staged, ruleName)
    THEN Return("ErrDuplicatedRuleName", "precondition", TRUE, staged)
    ELSE IF ~HasTargetsRole(staged, targetsRoleName)
    THEN Return("ErrMetadataNotFound", "precondition", TRUE, staged)
    ELSE IF signer.key \notin staged.RootEnvelope.payload.targetsKeys
    THEN Return("ErrUnauthorizedKey", "authorization", TRUE, staged)
    ELSE LET t == PolicyAddDelegation(GetTargetsMetadata(staged, targetsRoleName),
                      ruleName, authorizedKeys, rulePatterns, threshold)
         IN  IF t.err # "nil"
             THEN Return(t.err, "transform", TRUE, staged)
             ELSE EnvelopeSignCommit(staged, signer, marshalFails, targetsRoleName,
                                     t.metadata, TRUE)

\* Variant: the rule name is looked up in the named role only.
AddDelegation_NoGlobalNameCheck(staged, signer, marshalFails, targetsRoleName, ruleName, authorizedKeys, rulePatterns, threshold) ==
    IF ruleName = RootRoleName
    THEN Return("ErrInvalidPolicyName", "reserved", FALSE, staged)
    ELSE IF signer.keyIDFails
    THEN Return("nil", "keyid", FALSE, staged)
    ELSE IF LoadFails(staged)
    THEN Return("ErrPolicyNotInitialized", "load", TRUE, staged)
    ELSE IF ~HasTargetsRole(staged, targetsRoleName)
    THEN Return("ErrMetadataNotFound", "precondition", TRUE, staged)
    ELSE LET t == PolicyAddDelegation(GetTargetsMetadata(staged, targetsRoleName),
                      ruleName, authorizedKeys, rulePatterns, threshold)
         IN  IF t.err # "nil"
             THEN Return(t.err, "transform", TRUE, staged)
             ELSE EnvelopeSignCommit(staged, signer, marshalFails, targetsRoleName,
                                     t.metadata, TRUE)

AddDelegation(staged, signer, marshalFails, targetsRoleName, ruleName, authorizedKeys, rulePatterns, threshold) ==
    IF ruleName = RootRoleName
    THEN Return("ErrInvalidPolicyName", "reserved", FALSE, staged)
    ELSE IF signer.keyIDFails
    THEN Return("nil", "keyid", FALSE, staged)
    ELSE IF LoadFails(staged)
    THEN Return("ErrPolicyNotInitialized", "load", TRUE, staged)
    ELSE IF HasRuleName(staged, ruleName)
    THEN Return("ErrDuplicatedRuleName", "precondition", TRUE, staged)
    ELSE IF ~HasTargetsRole(staged, targetsRoleName)
    THEN Return("ErrMetadataNotFound", "precondition", TRUE, staged)
    ELSE LET t == PolicyAddDelegation(GetTargetsMetadata(staged, targetsRoleName),
                      ruleName, authorizedKeys, rulePatterns, threshold)
         IN  IF t.err # "nil"
             THEN Return(t.err, "transform", TRUE, staged)
             ELSE EnvelopeSignCommit(staged, signer, marshalFails, targetsRoleName,
                                     t.metadata, TRUE)

UpdateDelegation(staged, signer, marshalFails, targetsRoleName, ruleName, authorizedKeys, rulePatterns, threshold) ==
    IF ruleName = RootRoleName
    THEN Return("ErrInvalidPolicyName", "reserved", FALSE, staged)
    ELSE IF signer.keyIDFails
    THEN Return("nil", "keyid", FALSE, staged)
    ELSE IF LoadFails(staged)
    THEN Return("ErrPolicyNotInitialized", "load", TRUE, staged)
    ELSE IF ~HasTargetsRole(staged, targetsRoleName)
    THEN Return("ErrMetadataNotFound", "precondition", TRUE, staged)
    ELSE LET t == PolicyUpdateDelegation(GetTargetsMetadata(staged, targetsRoleName),
                      ruleName, authorizedKeys, rulePatterns, threshold)
         IN  IF t.err # "nil"
             THEN Return(t.err, "transform", TRUE, staged)
             ELSE EnvelopeSignCommit(staged, signer, marshalFails, targetsRoleName,
                                     t.metadata, TRUE)

RemoveDelegation(staged, signer, marshalFails, targetsRoleName, ruleName) ==
    IF signer.keyIDFails
    THEN Return("nil", "keyid", FALSE, staged)
    ELSE IF LoadFails(staged)
    THEN Return("ErrPolicyNotInitialized", "load", TRUE, staged)
    ELSE IF ~HasTargetsRole(staged, targetsRoleName)
    THEN Return("ErrMetadataNotFound", "precondition", TRUE, staged)
    ELSE LET t == PolicyRemoveDelegation(GetTargetsMetadata(staged, targetsRoleName),
                      ruleName)
         IN  IF t.err # "nil"
             THEN Return(t.err, "transform", TRUE, staged)
             ELSE EnvelopeSignCommit(staged, signer, marshalFails, targetsRoleName,
                                     t.metadata, TRUE)

\* Variant: a role that is missing is created instead of being reported.
AddKeyToTargets_CreatesMissingRole(staged, signer, marshalFails, targetsRoleName, authorizedKeys) ==
    IF signer.keyIDFails
    THEN Return("nil", "keyid", FALSE, staged)
    ELSE IF LoadFails(staged)
    THEN Return("ErrPolicyNotInitialized", "load", TRUE, staged)
    ELSE LET base == IF HasTargetsRole(staged, targetsRoleName)
                     THEN GetTargetsMetadata(staged, targetsRoleName)
                     ELSE InitializeTargetsMetadata
             t == PolicyAddKeyToTargets(base, authorizedKeys)
         IN  EnvelopeSignCommit(staged, signer, marshalFails, targetsRoleName,
                                t.metadata, FALSE)

AddKeyToTargets(staged, signer, marshalFails, targetsRoleName, authorizedKeys) ==
    IF signer.keyIDFails
    THEN Return("nil", "keyid", FALSE, staged)
    ELSE IF LoadFails(staged)
    THEN Return("ErrPolicyNotInitialized", "load", TRUE, staged)
    ELSE IF ~HasTargetsRole(staged, targetsRoleName)
    THEN Return("ErrMetadataNotFound", "precondition", TRUE, staged)
    ELSE LET t == PolicyAddKeyToTargets(GetTargetsMetadata(staged, targetsRoleName),
                      authorizedKeys)
         IN  IF t.err # "nil"
             THEN Return(t.err, "transform", TRUE, staged)
             ELSE EnvelopeSignCommit(staged, signer, marshalFails, targetsRoleName,
                                     t.metadata, FALSE)

\* Variant: the payload is wrapped in a fresh envelope before signing, as
\* the metadata-changing methods do.
SignTargets_FreshEnvelope(staged, signer, targetsRoleName) ==
    IF LoadFails(staged)
    THEN Return("ErrPolicyNotInitialized", "load", TRUE, staged)
    ELSE IF ~HasTargetsRole(staged, targetsRoleName)
    THEN Return("ErrMetadataNotFound", "precondition", TRUE, staged)
    ELSE IF signer.keyIDFails
    THEN Return("ErrKeyID", "keyid", TRUE, staged)
    ELSE IF signer.signFails
    THEN Return("ErrSign", "sign", TRUE, staged)
    ELSE Commit(SetEnvelope(staged, targetsRoleName,
                    SignEnvelope(CreateEnvelope(GetTargetsMetadata(staged, targetsRoleName)),
                                 signer)))

SignTargets(staged, signer, targetsRoleName) ==
    IF LoadFails(staged)
    THEN Return("ErrPolicyNotInitialized", "load", TRUE, staged)
    ELSE IF ~HasTargetsRole(staged, targetsRoleName)
    THEN Return("ErrMetadataNotFound", "precondition", TRUE, staged)
    ELSE IF signer.keyIDFails
    THEN Return("ErrKeyID", "keyid", TRUE, staged)
    ELSE IF signer.signFails
    THEN Return("ErrSign", "sign", TRUE, staged)
    ELSE Commit(SetEnvelope(staged, targetsRoleName,
                    SignEnvelope(GetEnvelope(staged, targetsRoleName), signer)))

\* ------------------------------------------- root of trust (root.go)
\* The contract of these methods is given in terms of the mutator's key, so
\* they are driven by signers whose key id resolves and whose signing works.
InitializeRoot(staged, signer) ==
    IF staged.RootEnvelope # NilEnvelope
    THEN Return("ErrCannotReinitialize", "precondition", TRUE, staged)
    ELSE Commit([staged EXCEPT !.RootEnvelope =
             SignEnvelope(CreateEnvelope(InitializeRootMetadata(signer.key)), signer)])

\* Variant: the signer is looked up among the top-level targets keys.
IsAuthorizedForRoot_TargetsKeys(staged, signer) ==
    signer.key \in staged.RootEnvelope.payload.targetsKeys

IsAuthorizedForRoot(staged, signer) ==
    signer.key \in staged.RootEnvelope.payload.rootKeys

AddTopLevelTargetsKey(staged, signer, targetsKey) ==
    IF LoadFails(staged)
    THEN Return("ErrPolicyNotInitialized", "load", TRUE, staged)
    ELSE IF ~IsAuthorizedForRoot(staged, signer)
    THEN Return("ErrUnauthorizedKey", "authorization", TRUE, staged)
    ELSE LET rootMetadata == [staged.RootEnvelope.payload EXCEPT
                                 !.targetsKeys = @ \cup {targetsKey}]
         IN  Commit([staged EXCEPT !.RootEnvelope =
                 SignEnvelope(CreateEnvelope(rootMetadata), signer)])

RemoveTopLevelTargetsKey(staged, signer, targetsKeyID) ==
    IF LoadFails(staged)
    THEN Return("ErrPolicyNotInitialized", "load", TRUE, staged)
    ELSE IF ~IsAuthorizedForRoot(staged, signer)
    THEN Return("ErrUnauthorizedKey", "authorization", TRUE, staged)
    ELSE LET remaining == staged.RootEnvelope.payload.targetsKeys \ {targetsKeyID}
         IN  IF Cardinality(remaining) < 1
             THEN Return("ErrCannotRemoveLastKey", "transform", TRUE, staged)
             ELSE Commit([staged EXCEPT !.RootEnvelope =
                      SignEnvelope(CreateEnvelope(
                          [staged.RootEnvelope.payload EXCEPT !.targetsKeys = remaining]),
                          signer)])

\* ------------------------------------------------------------ state machine
NoSigner == [key |-> "none", keyIDFails |-> FALSE, signFails |-> FALSE]

VARIABLES
    staging,   \* the policy state held at the tip of the policy staging ref
    tip,       \* number of commits on the policy staging ref
    last,      \* the last call: method, arguments and outcome (rule holds the
               \* rule name, or the key argument of the top-level key methods)
    inflight   \* per caller: the call that has loaded the policy state and not
               \* yet reached state.Commit (none while calls run one at a time)

vars == <<staging, tip, last, inflight>>

Callers == {1, 2}

NoCall ==
    [phase |-> "idle", op |-> "none", signer |-> NoSigner, role |-> "none",
     rule |-> "none", state |-> EmptyState, tip |-> 0]

NoneInFlight == [p \in Callers |-> NoCall]

Init ==
    /\ staging = EmptyState
    /\ tip = 0
    /\ last = [op |-> "none", signer |-> NoSigner, marshalFails |-> FALSE,
               role |-> "none", rule |-> "none", result |-> "nil",
               step |-> "none", loaded |-> FALSE, committed |-> FALSE]
    /\ inflight = NoneInFlight

\* One whole call: the ref moves only when the method reached state.Commit.
Call(op, signer, marshalFails, role, rule, out) ==
    /\ out.commit => tip < MaxCommits
    /\ staging' = IF out.commit THEN out.state ELSE staging
    /\ tip' = IF out.commit THEN tip + 1 ELSE tip
    /\ last' = [op |-> op, signer |-> signer, marshalFails |-> marshalFails,
                role |-> role, rule |-> rule, result |-> out.result,
                step |-> out.step, loaded |-> out.loaded, committed |-> out.commit]
    /\ UNCHANGED inflight

DoInitializeRoot ==
    \E s \in { o \in OkSigners : o.key \in RootSignerKeys } :
        Call("InitializeRoot", s, FALSE, RootRoleName, "none", InitializeRoot(staging, s))

DoAddTopLevelTargetsKey ==
    \E s \in OkSigners, k \in TopLevelTargetsKeys :
        Call("AddTopLevelTargetsKey", s, FALSE, RootRoleName, k,
             AddTopLevelTargetsKey(staging, s, k))

DoRemoveTopLevelTargetsKey ==
    \E s \in OkSigners, k \in RemovableKeyIDs :
        Call("RemoveTopLevelTargetsKey", s, FALSE, RootRoleName, k,
             RemoveTopLevelTargetsKey(staging, s, k))

DoInitializeTargets ==
    \E c \in CallConditions, role \in RoleNames :
        Call("InitializeTargets", c[1], c[2], role, "none",
             InitializeTargets(staging, c[1], c[2], role))

DoAddDelegation ==
    \E c \in CallConditions, role \in RuleFileNames, rule \in RuleNames,
       ks \in AuthorizedKeySets, ps \in RulePatternSets, th \in Thresholds :
        Call("AddDelegation", c[1], c[2], role, rule,
             AddDelegation(staging, c[1], c[2], role, rule, ks, ps, th))

DoUpdateDelegation ==
    \E c \in CallConditions, role \in RuleFileNames, rule \in RuleNames,
       ks \in AuthorizedKeySets, ps \in RulePatternSets, th \in Thresholds :
        Call("UpdateDelegation", c[1], c[2], role, rule,
             UpdateDelegation(staging, c[1], c[2], role, rule, ks, ps, th))

DoRemoveDelegation ==
    \E c \in CallConditions, role \in RuleFileNames, rule \in RuleNames :
        Call("RemoveDelegation", c[1], c[2], role, rule,
             RemoveDelegation(staging, c[1], c[2], role, rule))

DoAddKeyToTargets ==
    \E c \in CallConditions, role \in RuleFileNames, ks \in AuthorizedKeySets :
        Call("AddKeyToTargets", c[1], c[2], role, "none",
             AddKeyToTargets(staging, c[1], c[2], role, ks))

DoSignTargets ==
    \E s \in Signers, role \in RuleFileNames :
        Call("SignTargets", s, FALSE, role, "none", SignTargets(staging, s, role))

Next ==
    \/ DoInitializeRoot
    \/ DoAddTopLevelTargetsKey
    \/ DoRemoveTopLevelTargetsKey
    \/ DoInitializeTargets
    \/ DoAddDelegation
    \/ DoUpdateDelegation
    \/ DoRemoveDelegation
    \/ DoAddKeyToTargets
    \/ DoSignTargets

Spec == Init /\ [][Next]_vars

TargetsMethods ==
    {"InitializeTargets", "AddDelegation", "UpdateDelegation",
     "RemoveDelegation", "AddKeyToTargets", "SignTargets"}

TypeOK ==
    /\ tip \in 0..MaxCommits
    /\ last.op \in TargetsMethods \cup
           {"none", "InitializeRoot", "AddTopLevelTargetsKey", "RemoveTopLevelTargetsKey"}
    /\ last.committed \in BOOLEAN

\* ---------------------------------------------------------------- claims

\* C1: for every targets mutation, a call that ends at any step before the
\* commit (reserved name, key id, load, precondition, transform, envelope,
\* signing) leaves the staging reference's tip and content as they were.
C1_NoCommitOnFailure ==
    [][ (last'.op \in TargetsMethods /\ last'.step # "commit")
            => (tip' = tip /\ staging' = staging) ]_vars

C1_Witness ==
    /\ last.op = "AddDelegation"
    /\ last.step = "sign"
    /\ ~last.committed
    /\ tip > 0

\* C2: whenever resolving the key id, creating the envelope or signing
\* fails, the call returns an error; a call returns nil only if it
\* committed.
C2_ErrorsReturned ==
    last.op \in TargetsMethods =>
        /\ last.step \in {"keyid", "envelope", "sign"} => last.result # "nil"
        /\ last.result = "nil" => last.committed

\* C3: with a root that authorizes the root keys K, the top-level targets
\* key methods called by a signer whose key is not in K fail with
\* ErrUnauthorizedKey and leave the staging tip unchanged, also when the
\* key id to remove is not a targets key.
C3_UnauthorizedKeyRejected ==
    [][ ( /\ last'.op \in {"AddTopLevelTargetsKey", "RemoveTopLevelTargetsKey"}
          /\ staging.RootEnvelope # NilEnvelope
          /\ last'.signer.key \notin staging.RootEnvelope.payload.rootKeys )
            => ( /\ last'.result = "ErrUnauthorizedKey"
                 /\ tip' = tip
                 /\ staging' = staging ) ]_vars

C3_Witness ==
    /\ last.op = "RemoveTopLevelTargetsKey"
    /\ last.rule = "some key ID"
    /\ last.loaded
    /\ staging.RootEnvelope # NilEnvelope
    /\ last.rule \notin staging.RootEnvelope.payload.targetsKeys
    /\ last.signer.key \notin staging.RootEnvelope.payload.rootKeys
    /\ last.result = "ErrUnauthorizedKey"

\* C4: once a rule name is in some role's delegations, every AddDelegation
\* with that rule name, on any role, fails with ErrDuplicatedRuleName and
\* writes no commit.
C4_DuplicateRuleNameRejected ==
    [][ (last'.op = "AddDelegation" /\ HasRuleName(staging, last'.rule))
            => (last'.result = "ErrDuplicatedRuleName" /\ tip' = tip) ]_vars

\* C5: no rule name occurs more than once across the delegation lists of
\* all roles taken together.
RuleOccurrences(state, ruleName) ==
    { <<r, i>> \in RuleFileNames \X (1..MaxCommits) :
        /\ HasTargetsRole(state, r)
        /\ i <= Len(GetTargetsMetadata(state, r).delegations)
        /\ GetTargetsMetadata(state, r).delegations[i].name = ruleName }

C5_RuleNamesGloballyUnique ==
    \A n \in RuleNames : Cardinality(RuleOccurrences(staging, n)) <= 1

C5_Witness ==
    /\ last.op = "AddDelegation"
    /\ last.result = "ErrDuplicatedRuleName"
    /\ \E r \in RuleFileNames :
          /\ r # last.role
          /\ HasTargetsRole(staging, r)
          /\ HasTargetsRole(staging, last.role)
          /\ HasDelegation(GetTargetsMetadata(staging, r), last.rule)

\* C6: AddDelegation with rule name "root" and InitializeTargets with role
\* name "root" fail with ErrInvalidPolicyName for every signer, argument and
\* policy state, without loading the policy and without committing.
C6_ReservedNameRejected ==
    ( \/ (last.op = "AddDelegation" /\ last.rule = RootRoleName)
      \/ (last.op = "InitializeTargets" /\ last.role = RootRoleName) )
        => ( /\ last.result = "ErrInvalidPolicyName"
             /\ ~last.loaded
             /\ ~last.committed )

C6_Witness ==
    /\ last.op = "InitializeTargets"
    /\ last.role = RootRoleName
    /\ last.signer.keyIDFails
    /\ staging.RootEnvelope = NilEnvelope
    /\ last.result = "ErrInvalidPolicyName"

\* C7: AddDelegation, UpdateDelegation and RemoveDelegation called with rule
\* name "root" return ErrInvalidPolicyName whatever the policy state, the
\* named role and the signer are.
C7_RootRuleRejectedFirst ==
    ( /\ last.op \in {"AddDelegation", "UpdateDelegation", "RemoveDelegation"}
      /\ last.rule = RootRoleName )
        => last.result = "ErrInvalidPolicyName"

\* C8: InitializeTargets for a role that already exists in the staging
\* policy state fails with ErrCannotReinitialize and leaves the staging
\* policy state, the role's envelope included, unchanged.
C8_CannotReinitialize ==
    [][ (last'.op = "InitializeTargets" /\ HasTargetsRole(staging, last'.role))
            => ( /\ last'.result = "ErrCannotReinitialize"
                 /\ tip' = tip
                 /\ staging' = staging ) ]_vars

\* C9: AddDelegation (rule name not in use), UpdateDelegation,
\* RemoveDelegation, AddKeyToTargets and SignTargets that loaded a policy
\* state in which the named role has no envelope fail with
\* ErrMetadataNotFound, write no commit and do not create the role.
C9_MissingRoleRejected ==
    [][ ( /\ last'.op \in {"AddDelegation", "UpdateDelegation", "RemoveDelegation",
                          "AddKeyToTargets", "SignTargets"}
          /\ last'.loaded
          /\ ~LoadFails(staging)
          /\ ~HasTargetsRole(staging, last'.role)
          /\ (last'.op = "AddDelegation" => ~HasRuleName(staging, last'.rule)) )
            => ( /\ last'.result = "ErrMetadataNotFound"
                 /\ tip' = tip
                 /\ staging' = staging ) ]_vars

C9_Witness ==
    /\ last.op = "AddKeyToTargets"
    /\ last.loaded
    /\ staging.RootEnvelope # NilEnvelope
    /\ staging.TargetsEnvelope # NilEnvelope
    /\ ~HasTargetsRole(staging, last.role)
    /\ last.result = "ErrMetadataNotFound"

\* C10: a successful SignTargets on a role keeps the payload of the role's
\* envelope and every signature it carried, adds nothing but the signer's
\* signature, and leaves the root envelope and all other roles' envelopes
\* as they were.
SigningKeyIDs(env) == SeqToSet(env.signatures)

C10_SignTargetsFrame ==
    [][ (last'.op = "SignTargets" /\ last'.result = "nil")
            => LET R == last'.role
                   old == GetEnvelope(staging, R)
                   new == GetEnvelope(staging', R)
               IN  /\ HasTargetsRole(staging, R)
                   /\ new.payload = old.payload
                   /\ \A i \in 1..Len(old.signatures) :
                          new.signatures[i] = old.signatures[i]
                   /\ SigningKeyIDs(new) = SigningKeyIDs(old) \cup {last'.signer.key}
                   /\ staging'.RootEnvelope = staging.RootEnvelope
                   /\ DOMAIN staging'.DelegationEnvelopes = DOMAIN staging.DelegationEnvelopes
                   /\ \A r \in RuleFileNames \ {R} :
                          HasTargetsRole(staging, r)
                              => GetEnvelope(staging', r) = GetEnvelope(staging, r)
                   /\ R # TargetsRoleName
                          => staging'.TargetsEnvelope = staging.TargetsEnvelope ]_vars

C10_Witness ==
    /\ last.op = "SignTargets"
    /\ last.result = "nil"
    /\ last.committed
    /\ Len(GetEnvelope(staging, last.role).signatures) >= 2
    /\ Len(GetEnvelope(staging, last.role).payload.delegations) >= 1

\* C11: SignTargets by a key that has already signed the role's envelope
\* leaves the set of signing key ids and the number of signatures as they
\* were, and after any SignTargets no envelope lists a key id twice.
NoDuplicateSigners(env) ==
    \A i, j \in 1..Len(env.signatures) :
        i # j => env.signatures[i] # env.signatures[j]

C11_SigningIdempotent ==
    [][ (last'.op = "SignTargets" /\ last'.result = "nil")
            => LET old == GetEnvelope(staging, last'.role)
                   new == GetEnvelope(staging', last'.role)
               IN  /\ \A env \in AllTargetsEnvelopes(staging') : NoDuplicateSigners(env)
                   /\ HasSignatureFrom(old, last'.signer.key)
                          => /\ SigningKeyIDs(new) = SigningKeyIDs(old)
                             /\ Len(new.signatures) = Len(old.signatures) ]_vars

C11_Witness ==
    /\ last.op = "SignTargets"
    /\ last.result = "nil"
    /\ last.committed
    /\ GetEnvelope(staging, last.role).signatures = <<last.signer.key>>

\* C12: every delegation of every role has a threshold of at least 1 and at
\* most the number of its authorized keys.
C12_ThresholdsValid ==
    \A env \in AllTargetsEnvelopes(staging) :
        \A i \in 1..Len(env.payload.delegations) :
            /\ env.payload.delegations[i].threshold >= 1
            /\ env.payload.delegations[i].threshold
                   <= Cardinality(env.payload.delegations[i].keys)

\* C14 (as stated): while the staging reference holds no root document,
\* every call of the six targets methods fails with the load error and
\* commits nothing.
C14_LoadErrorWithoutRoot ==
    [][ (last'.op \in TargetsMethods /\ LoadFails(staging))
            => ( /\ last'.result = "ErrPolicyNotInitialized"
                 /\ tip' = tip
                 /\ staging' = staging ) ]_vars

\* C14 (amended): while the staging reference holds no root document, no
\* call of the six targets methods commits anything and every call that
\* reaches the policy load fails with the load error; hence whenever a
\* targets or delegation envelope is present a root envelope is present.
RootPrecedesTargets ==
    AllTargetsEnvelopes(staging) # {} => staging.RootEnvelope # NilEnvelope

C14_NoTargetsBeforeRoot ==
    /\ []RootPrecedesTargets
    /\ [][ (last'.op \in TargetsMethods /\ LoadFails(staging))
               => ( /\ tip' = tip
                    /\ staging' = staging
                    /\ last'.loaded => last'.result = "ErrPolicyNotInitialized" ) ]_vars

C14_Witness ==
    /\ last.op = "InitializeTargets"
    /\ last.loaded
    /\ last.result = "ErrPolicyNotInitialized"
    /\ staging = EmptyState

\* C17: a committed InitializeTargets, AddDelegation, UpdateDelegation,
\* RemoveDelegation or AddKeyToTargets leaves the role's envelope with
\* exactly one signature, the caller's, whatever signatures it carried
\* before; a committed SignTargets by a key that had not signed adds one
\* signature to those present.
MetadataMethods == TargetsMethods \ {"SignTargets"}

C17_FreshEnvelopeSingleSignature ==
    [][ /\ (last'.op \in MetadataMethods /\ last'.committed)
            => GetEnvelope(staging', last'.role).signatures = <<last'.signer.key>>
        /\ ( /\ last'.op = "SignTargets"
             /\ last'.committed
             /\ ~HasSignatureFrom(GetEnvelope(staging, last'.role), last'.signer.key) )
            => GetEnvelope(staging', last'.role).signatures
                   = Append(GetEnvelope(staging, last'.role).signatures, last'.signer.key)
      ]_vars

C17_Witness ==
    /\ last.op = "UpdateDelegation"
    /\ last.committed
    /\ GetEnvelope(staging, last.role).signatures = <<last.signer.key>>
    /\ tip >= 4

\* C18: a committed call on role R leaves the root envelope and every other
\* role's envelope as they were; "targets" is held in TargetsEnvelope and
\* every other role name in its own entry of DelegationEnvelopes.
C18_OnlyNamedRoleReplaced ==
    [][ (last'.op \in TargetsMethods /\ last'.committed)
            => LET R == last'.role
               IN  /\ staging'.RootEnvelope = staging.RootEnvelope
                   /\ HasTargetsRole(staging', R)
                   /\ R = TargetsRoleName
                          => staging'.DelegationEnvelopes = staging.DelegationEnvelopes
                   /\ R # TargetsRoleName
                          => /\ staging'.TargetsEnvelope = staging.TargetsEnvelope
                             /\ DOMAIN staging'.DelegationEnvelopes
                                    = DOMAIN staging.DelegationEnvelopes \cup {R}
                             /\ \A r \in DOMAIN staging.DelegationEnvelopes \ {R} :
                                    staging'.DelegationEnvelopes[r]
                                        = staging.DelegationEnvelopes[r] ]_vars

C18_Witness ==
    /\ last.op = "AddDelegation"
    /\ last.committed
    /\ last.role = "delegate"
    /\ staging.TargetsEnvelope # NilEnvelope
    /\ Len(staging.DelegationEnvelopes["delegate"].payload.delegations) = 1

\* C15: InitializeRoot with key A, AddTopLevelTargetsKey of B signed by A,
\* InitializeTargets("targets") signed by B and AddDelegation("targets",
\* "protect-main", {C}, {refs/heads/main pattern}, 1) signed by B each
\* succeed from the state the step before leaves, and the top-level targets
\* metadata then holds exactly one delegation, "protect-main", whose
\* authorized keys are exactly {C}.
SignerA == [key |-> "A", keyIDFails |-> FALSE, signFails |-> FALSE]
SignerB == [key |-> "B", keyIDFails |-> FALSE, signFails |-> FALSE]

AfterInitializeRoot ==
    [EmptyState EXCEPT !.RootEnvelope =
        [payload |-> [type |-> "root", rootKeys |-> {"A"}, targetsKeys |-> {"A"}],
         signatures |-> <<"A">>]]

AfterAddTopLevelTargetsKey ==
    [EmptyState EXCEPT !.RootEnvelope =
        [payload |-> [type |-> "root", rootKeys |-> {"A"}, targetsKeys |-> {"A", "B"}],
         signatures |-> <<"A">>]]

AfterInitializeTargets ==
    [AfterAddTopLevelTargetsKey EXCEPT !.TargetsEnvelope =
        [payload |-> [type |-> "targets", keys |-> {}, delegations |-> <<>>],
         signatures |-> <<"B">>]]

Succeeds(out) == out.commit /\ out.result = "nil"

C15_EndToEnd ==
    /\ staging = EmptyState
           => LET out == InitializeRoot(staging, SignerA)
              IN  Succeeds(out) /\ out.state = AfterInitializeRoot
    /\ staging = AfterInitializeRoot
           => LET out == AddTopLevelTargetsKey(staging, SignerA, "B")
              IN  Succeeds(out) /\ out.state = AfterAddTopLevelTargetsKey
    /\ staging = AfterAddTopLevelTargetsKey
           => LET out == InitializeTargets(staging, SignerB, FALSE, TargetsRoleName)
              IN  Succeeds(out) /\ out.state = AfterInitializeTargets
    /\ staging = AfterInitializeTargets
           => LET out == AddDelegation(staging, SignerB, FALSE, TargetsRoleName,
                             "protect-main", {"C"}, {"git:refs/heads/main"}, 1)
                  delegations == out.state.TargetsEnvelope.payload.delegations
              IN  /\ Succeeds(out)
                  /\ Len(delegations) = 1
                  /\ delegations[1].name = "protect-main"
                  /\ delegations[1].keys = {"C"}

C15_Witness ==
    /\ tip = 4
    /\ last.op = "AddDelegation"
    /\ last.committed
    /\ last.signer = SignerB
    /\ staging.RootEnvelope = AfterInitializeTargets.RootEnvelope
    /\ staging.DelegationEnvelopes = <<>>
    /\ staging.TargetsEnvelope.signatures = <<"B">>
    /\ Len(staging.TargetsEnvelope.payload.delegations) = 1
    /\ staging.TargetsEnvelope.payload.delegations[1].name = "protect-main"
    /\ staging.TargetsEnvelope.payload.delegations[1].keys = {"C"}

\* C19: on the same policy state and with the same arguments, any two
\* signers whose key id resolves and whose signing works get the same
\* result from InitializeTargets, AddDelegation, UpdateDelegation,
\* RemoveDelegation and AddKeyToTargets: the same error, or a commit with
\* the same payload for the role; none of these calls ends with
\* ErrUnauthorizedKey.
SameOutcome(a, b, role) ==
    /\ a.result = b.result
    /\ a.commit = b.commit
    /\ a.result # "ErrUnauthorizedKey"
    /\ b.result # "ErrUnauthorizedKey"
    /\ a.commit => GetEnvelope(a.state, role).payload = GetEnvelope(b.state, role).payload

C19_SignerIndependent ==
    /\ last.op \in MetadataMethods => last.result # "ErrUnauthorizedKey"
    /\ \A s1 \in {SignerA}, s2 \in OkSigners \ {SignerA}, mf \in BOOLEAN :
        /\ \A role \in RoleNames :
               SameOutcome(InitializeTargets(staging, s1, mf, role),
                           InitializeTargets(staging, s2, mf, role), role)
        /\ \A role \in RuleFileNames :
            /\ \A ks \in AuthorizedKeySets :
                   SameOutcome(AddKeyToTargets(staging, s1, mf, role, ks),
                               AddKeyToTargets(staging, s2, mf, role, ks), role)
            /\ \A rule \in RuleNames :
                /\ SameOutcome(RemoveDelegation(staging, s1, mf, role, rule),
                               RemoveDelegation(staging, s2, mf, role, rule), role)
                /\ \A ks \in AuthorizedKeySets, ps \in RulePatternSets, th \in Thresholds :
                    /\ SameOutcome(AddDelegation(staging, s1, mf, role, rule, ks, ps, th),
                                   AddDelegation(staging, s2, mf, role, rule, ks, ps, th),
                                   role)
                    /\ SameOutcome(UpdateDelegation(staging, s1, mf, role, rule, ks, ps, th),
                                   UpdateDelegation(staging, s2, mf, role, rule, ks, ps, th),
                                   role)

C19_Witness ==
    /\ last.op = "AddDelegation"
    /\ last.committed
    /\ last.role = "delegate"
    /\ last.signer.key \notin staging.RootEnvelope.payload.rootKeys
    /\ last.signer.key \notin staging.RootEnvelope.payload.targetsKeys
    /\ staging.TargetsEnvelope # NilEnvelope
    /\ ~HasSignatureFrom(staging.TargetsEnvelope, last.signer.key)

\* C20: AddDelegation checks, in this order, the reserved name, the policy
\* load, the rule-name collision and the role's existence, and its result is
\* the error of the first check that fails.
C20_AddDelegationPrecedence ==
    [][ last'.op = "AddDelegation"
            => IF last'.rule = RootRoleName
               THEN last'.result = "ErrInvalidPolicyName"
               ELSE IF LoadFails(staging)
               THEN last'.result = "ErrPolicyNotInitialized"
               ELSE IF HasRuleName(staging, last'.rule)
               THEN last'.result = "ErrDuplicatedRuleName"
               ELSE IF ~HasTargetsRole(staging, last'.role)
               THEN last'.result = "ErrMetadataNotFound"
               ELSE TRUE ]_vars

\* ------------------------------------------ a repository with a policy
\* The repository createTestRepositoryWithPolicy builds: root by A, targets
\* key B, "targets" initialized by B, rule "protect-main" added by B.  From
\* there the delegation methods are called with further rule names.
PolicyRuleNames == {"protect-main", "protect-dev", "protect-release"}

FixtureCall ==
    AddDelegation(AfterInitializeTargets, SignerB, FALSE, TargetsRoleName,
                  "protect-main", {"C"}, {"git:refs/heads/main"}, 1)

FixtureCommits == 4

InitPolicy ==
    /\ staging = FixtureCall.state
    /\ tip = FixtureCommits
    /\ last = [op |-> "AddDelegation", signer |-> SignerB, marshalFails |-> FALSE,
               role |-> TargetsRoleName, rule |-> "protect-main",
               result |-> FixtureCall.result, step |-> FixtureCall.step,
               loaded |-> FixtureCall.loaded, committed |-> FixtureCall.commit]
    /\ inflight = NoneInFlight

PolicyCall(op, signer, role, rule, out) ==
    /\ out.commit => tip < FixtureCommits + MaxPolicyCommits
    /\ staging' = IF out.commit THEN out.state ELSE staging
    /\ tip' = IF out.commit THEN tip + 1 ELSE tip
    /\ last' = [op |-> op, signer |-> signer, marshalFails |-> FALSE,
                role |-> role, rule |-> rule, result |-> out.result,
                step |-> out.step, loaded |-> out.loaded, committed |-> out.commit]
    /\ UNCHANGED inflight

PolicyDoAddDelegation ==
    \E s \in OkSigners, rule \in PolicyRuleNames,
       ks \in AuthorizedKeySets, ps \in RulePatternSets, th \in Thresholds :
        PolicyCall("AddDelegation", s, TargetsRoleName, rule,
                   AddDelegation(staging, s, FALSE, TargetsRoleName, rule, ks, ps, th))

PolicyDoUpdateDelegation ==
    \E s \in OkSigners, rule \in PolicyRuleNames,
       ks \in AuthorizedKeySets, ps \in RulePatternSets, th \in Thresholds :
        PolicyCall("UpdateDelegation", s, TargetsRoleName, rule,
                   UpdateDelegation(staging, s, FALSE, TargetsRoleName, rule, ks, ps, th))

PolicyDoRemoveDelegation ==
    \E s \in OkSigners, rule \in PolicyRuleNames :
        PolicyCall("RemoveDelegation", s, TargetsRoleName, rule,
                   RemoveDelegation(staging, s, FALSE, TargetsRoleName, rule))

PolicyNext ==
    \/ PolicyDoAddDelegation
    \/ PolicyDoUpdateDelegation
    \/ PolicyDoRemoveDelegation

SpecPolicy == InitPolicy /\ [][PolicyNext]_vars

\* C13: a committed AddDelegation puts the new rule last and keeps the rules
\* before it as they were; a committed UpdateDelegation keeps every rule at
\* its index and changes only the named one; a committed RemoveDelegation
\* deletes the named rule only and keeps the others in their order.
DelegationsOf(state, roleName) == GetTargetsMetadata(state, roleName).delegations

C13_DelegationOrderPreserved ==
    [][ last'.committed
            => LET old == DelegationsOf(staging, last'.role)
                   new == DelegationsOf(staging', last'.role)
               IN  /\ last'.op = "AddDelegation"
                          => /\ Len(new) = Len(old) + 1
                             /\ SubSeq(new, 1, Len(old)) = old
                             /\ new[Len(new)].name = last'.rule
                   /\ last'.op = "UpdateDelegation"
                          => /\ Len(new) = Len(old)
                             /\ \A i \in 1..Len(old) :
                                    /\ new[i].name = old[i].name
                                    /\ old[i].name # last'.rule => new[i] = old[i]
                   /\ last'.op = "RemoveDelegation"
                          => /\ Len(new) = Len(old) - 1
                             /\ new = SelectSeq(old, LAMBDA d : d.name # last'.rule)
      ]_vars

C13_Witness ==
    /\ last.op = "UpdateDelegation"
    /\ last.committed
    /\ last.rule = "protect-dev"
    /\ Len(DelegationsOf(staging, last.role)) = 3
    /\ DelegationsOf(staging, last.role)[1].name = "protect-main"
    /\ DelegationsOf(staging, last.role)[2].name = "protect-dev"
    /\ DelegationsOf(staging, last.role)[3].name = "protect-release"

\* --------------------------------------------- two callers interleaving
\* Load and commit are separate steps: a caller loads the policy state at
\* the current tip, and later transforms what it loaded and calls
\* state.Commit, while the other caller may have committed in between.
ConcurrentMethods == {"AddDelegation", "RemoveDelegation", "SignTargets"}

ConcurrentOutcome(call, loaded) ==
    CASE call.op = "AddDelegation" ->
             AddDelegation(loaded, call.signer, FALSE, call.role, call.rule,
                           {"C"}, {"git:refs/heads/main"}, 1)
      [] call.op = "RemoveDelegation" ->
             RemoveDelegation(loaded, call.signer, FALSE, call.role, call.rule)
      [] call.op = "SignTargets" ->
             SignTargets(loaded, call.signer, call.role)

ConcurrentLoad(p) ==
    /\ inflight[p].phase = "idle"
    /\ tip < FixtureCommits + MaxPolicyCommits
    /\ \E op \in ConcurrentMethods, s \in OkSigners, rule \in PolicyRuleNames :
          inflight' = [inflight EXCEPT ![p] =
              [phase |-> "loaded", op |-> op, signer |-> s, role |-> TargetsRoleName,
               rule |-> IF op = "SignTargets" THEN "none" ELSE rule,
               state |-> staging, tip |-> tip]]
    /\ UNCHANGED <<staging, tip, last>>

ConcurrentFinish(p) ==
    /\ inflight[p].phase = "loaded"
    /\ LET call == inflight[p]
           out == ConcurrentOutcome(call, call.state)
           lands == out.commit /\ CommitLands(call.tip, tip)
       IN  /\ staging' = IF lands THEN out.state ELSE staging
           /\ tip' = IF lands THEN tip + 1 ELSE tip
           /\ last' = [op |-> call.op, signer |-> call.signer, marshalFails |-> FALSE,
                       role |-> call.role, rule |-> call.rule,
                       result |-> IF out.commit /\ ~lands THEN "ErrConflict"
                                  ELSE out.result,
                       step |-> out.step, loaded |-> TRUE, committed |-> lands]
    /\ inflight' = [inflight EXCEPT ![p] = NoCall]

ConcurrentNext ==
    \/ \E p \in Callers : ConcurrentLoad(p)
    \/ \E p \in Callers : ConcurrentFinish(p)

SpecConcurrent == InitPolicy /\ [][ConcurrentNext]_vars

====
